---- MODULE Spec2Model ----
(***************************************************************************)
(* Model of code.py: the PubMed non-academic-author report.                *)
(*   main -> fetch_papers -> {extract_paper_details}* -> save_to_csv/print *)
(* Dictionaries are functions with string domains ("k" in d is             *)
(* "k" \in DOMAIN d, a missing key raises), lists are sequences, strings   *)
(* are TLA+ strings inspected with Len and SubSeq.                         *)
(***************************************************************************)
EXTENDS Integers, Sequences, FiniteSets, TLC

VARIABLES
    pc,          \* position of the single thread of control
    args,        \* argparse namespace: [debug, file]
    pmids,       \* fetch_papers: the IdList of the search
    i,           \* fetch_papers: position of the for loop in pmids
    results,     \* fetch_papers: the accumulating result list
    records,     \* extract_paper_details: the parsed efetch response
    paper_info,  \* extract_paper_details: the row being built
    authors,     \* extract_paper_details: article.get("AuthorList", [])
    k,           \* extract_paper_details: position of the author loop
    caught,      \* extract_paper_details: the except clause was entered
    paper_data,  \* fetch_papers: value returned by extract_paper_details
    stdout,      \* what print() has emitted, in order
    fileWritten, \* the file named by -f was opened for writing
    fileRows,    \* the rows of that file
    error,       \* the exception that ended the process, "" if none
    searches,    \* history: number of esearch calls issued
    fetchLog,    \* history: the identifiers passed to efetch, in order
    flaggedAt    \* history: author positions appended to the flagged lists

vars == <<pc, args, pmids, i, results, records, paper_info, authors, k, caught,
          paper_data, stdout, fileWritten, fileRows, error, searches, fetchLog,
          flaggedAt>>

(* ------------------------------ bounds --------------------------------- *)
MaxAuthors == 2
MaxIds == 2

(* ----------------------------- constants ------------------------------- *)
RetMax == 20

NON_ACADEMIC_KEYWORDS ==
    <<"Pharma", "Biotech", "Inc", "Ltd", "Corporation", "Company", "Laboratories">>
ACADEMIC_KEYWORDS ==
    <<"University", "Institute", "Academy", "Hospital", "Research Center">>

fieldnames ==
    <<"PubmedID", "Title", "Publication Date", "Non-academic Author(s)",
      "Company Affiliation(s)", "Corresponding Author Email">>

None == [None |-> TRUE]
NoRecords == [NotFetched |-> TRUE]

(* --------------------------- string helpers ---------------------------- *)
At(s, n) == SubSeq(s, n, n)

\* Python's `kw in s` on strings: case-sensitive substring containment.
Contains(kw, s) ==
    \E n \in 1..(Len(s) - Len(kw) + 1) : SubSeq(s, n, n + Len(kw) - 1) = kw

AnyKeyword(kws, s) == \E n \in 1..Len(kws) : Contains(kws[n], s)

Letters ==
    {"a","b","c","d","e","f","g","h","i","j","k","l","m","n","o","p","q","r",
     "s","t","u","v","w","x","y","z",
     "A","B","C","D","E","F","G","H","I","J","K","L","M","N","O","P","Q","R",
     "S","T","U","V","W","X","Y","Z"}
Digits == {"0","1","2","3","4","5","6","7","8","9"}
\* the character class [\w\.-]
EmailClass == Letters \cup Digits \cup {"_", ".", "-"}

\* last position of the maximal run of class characters starting at a
RECURSIVE RunEnd(_, _)
RunEnd(s, a) ==
    IF a < Len(s) /\ At(s, a + 1) \in EmailClass THEN RunEnd(s, a + 1) ELSE a

\* [\w\.-]+@[\w\.-]+ anchored at position a (both repetitions greedy)
MatchesAt(s, a) ==
    /\ At(s, a) \in EmailClass
    /\ LET b == RunEnd(s, a)
       IN  /\ b + 2 <= Len(s)
           /\ At(s, b + 1) = "@"
           /\ At(s, b + 2) \in EmailClass

\* re.search(r"[\w\.-]+@[\w\.-]+", s): <<>> for no match, else <<group()>>
re_search(s) ==
    LET starts == {a \in 1..Len(s) : MatchesAt(s, a)}
    IN  IF starts = {} THEN <<>>
        ELSE LET a == CHOOSE x \in starts : \A y \in starts : x <= y
                 b == RunEnd(s, a)
             IN  <<SubSeq(s, a, RunEnd(s, b + 2))>>

(* ------------------------------ inputs --------------------------------- *)
\* Author entries as Entrez.read delivers them.  Each one exercises a path
\* of the author loop.
AuthorPool ==
    { \* commercial keyword and an email: the example of the specification
      [LastName |-> "Doe", ForeName |-> "John",
       AffiliationInfo |-> <<[Affiliation |-> "XYZ Pharma Inc, contact: a.b@xyz.com"]>>],
      \* academic keyword only
      [LastName |-> "Roe", ForeName |-> "Jane",
       AffiliationInfo |-> <<[Affiliation |-> "Department of Biology, University of X"]>>],
      \* commercial and academic keyword, with an email
      [LastName |-> "Poe", ForeName |-> "Ann",
       AffiliationInfo |-> <<[Affiliation |-> "Pharma Institute c@u.edu"]>>],
      \* no AffiliationInfo key
      [LastName |-> "Lee", ForeName |-> "Bo"],
      \* empty AffiliationInfo list: [0] raises IndexError
      [LastName |-> "Kim", ForeName |-> "Al", AffiliationInfo |-> <<>>],
      \* qualifying affiliation, LastName missing: KeyError
      [ForeName |-> "Cy",
       AffiliationInfo |-> <<[Affiliation |-> "Acme Ltd d-e@acme.org"]>>],
      \* two entries: academic first, commercial with an email second
      [LastName |-> "Fox", ForeName |-> "Di",
       AffiliationInfo |-> <<[Affiliation |-> "Academy of Y"],
                             [Affiliation |-> "Beta Biotech f@beta.io"]>>],
      \* commercial, "@" present but nothing email-shaped
      [LastName |-> "Ray", ForeName |-> "Ed",
       AffiliationInfo |-> <<[Affiliation |-> "Gamma Corporation g@@h"]>>],
      \* commercial, two email-shaped substrings
      [LastName |-> "Moe", ForeName |-> "Flo",
       AffiliationInfo |-> <<[Affiliation |-> "Delta Laboratories m_f@delta.com; z@w.net"]>>],
      \* first entry without the Affiliation key: KeyError
      [LastName |-> "Ash", ForeName |-> "Gus",
       AffiliationInfo |-> <<[Identifier |-> "0000"]>>],
      \* academic affiliation with an email, ForeName missing (never read)
      [LastName |-> "Orr",
       AffiliationInfo |-> <<[Affiliation |-> "Hospital Z o@z.org"]>>],
      \* two entries: commercial first, academic with an email second
      [LastName |-> "Ivy", ForeName |-> "Hal",
       AffiliationInfo |-> <<[Affiliation |-> "Epsilon Company"],
                             [Affiliation |-> "University of W i@w.edu"]>>] }

AuthorLists(pool, n) == UNION {[1..m -> pool] : m \in 0..n}

Journal(pubdate) == [JournalIssue |-> [PubDate |-> pubdate]]

\* The Article dictionaries over an author list: well formed, without
\* AuthorList, without ArticleTitle, and with a PubDate that has no Year.
ArticlesOver(al) ==
    { [ArticleTitle |-> "T", Journal |-> Journal([Year |-> "2020"]), AuthorList |-> al],
      [Journal |-> Journal([Year |-> "2020"]), AuthorList |-> al],
      [ArticleTitle |-> "T", Journal |-> Journal([MedlineDate |-> "2020 Jan-Feb"]),
       AuthorList |-> al] }
    \cup (IF al = <<>>
          THEN {[ArticleTitle |-> "T", Journal |-> Journal([Year |-> "2020"])]}
          ELSE {})

Response(article) == [PubmedArticle |-> <<[MedlineCitation |-> [Article |-> article]]>>]

\* an efetch response that holds no article: [0] raises IndexError
EmptyResponse == [PubmedArticle |-> <<>>]

\* the parsed efetch responses extraction is checked on
AllRecords ==
    {EmptyResponse} \cup
    {Response(a) : a \in UNION {ArticlesOver(al) : al \in AuthorLists(AuthorPool, MaxAuthors)}}

(* ----------------------- extract_paper_details ------------------------- *)
Has(d, key) == key \in DOMAIN d

\* line 33: the row as created
NewPaperInfo(pmid) ==
    ("PubmedID" :> pmid) @@ ("Title" :> "") @@ ("Publication Date" :> "") @@
    ("Non-academic Author(s)" :> <<>>) @@ ("Company Affiliation(s)" :> <<>>) @@
    ("Corresponding Author Email" :> "")

\* lines 36-38 complete without raising
HeaderOk(recs) ==
    /\ Len(recs["PubmedArticle"]) >= 1
    /\ LET article == recs["PubmedArticle"][1]["MedlineCitation"]["Article"]
       IN  /\ Has(article, "ArticleTitle")
           /\ Has(article["Journal"]["JournalIssue"]["PubDate"], "Year")

ArticleOf(recs) == recs["PubmedArticle"][1]["MedlineCitation"]["Article"]

\* line 39: article.get("AuthorList", [])
AuthorListOf(article) ==
    IF Has(article, "AuthorList") THEN article["AuthorList"] ELSE <<>>

\* variant: the last affiliation entry is inspected
InspectedEntryLast(affiliationInfo) == affiliationInfo[Len(affiliationInfo)]

\* line 43: the affiliation entry that is inspected
InspectedEntry(affiliationInfo) == affiliationInfo[1]

\* variant: the academic keywords are not consulted
IsNonAcademicCommercialOnly(affiliation) ==
    AnyKeyword(NON_ACADEMIC_KEYWORDS, affiliation)

\* line 44: the classification heuristic
IsNonAcademic(affiliation) ==
    /\ AnyKeyword(NON_ACADEMIC_KEYWORDS, affiliation)
    /\ ~AnyKeyword(ACADEMIC_KEYWORDS, affiliation)

\* variant: the affiliation is not appended with the name
AppendFlaggedNameOnly(info, author, affiliation) ==
    [info EXCEPT
        !["Non-academic Author(s)"] = Append(@, author["LastName"] \o " " \o author["ForeName"])]

\* lines 45-46: both appends
AppendFlagged(info, author, affiliation) ==
    [info EXCEPT
        !["Non-academic Author(s)"] = Append(@, author["LastName"] \o " " \o author["ForeName"]),
        !["Company Affiliation(s)"] = Append(@, affiliation)]

\* lines 48-51: the email of the affiliation overwrites the field
SetEmail(info, affiliation) ==
    IF Contains("@", affiliation) /\ re_search(affiliation) # <<>>
    THEN [info EXCEPT !["Corresponding Author Email"] = re_search(affiliation)[1]]
    ELSE info

\* lines 42-51 raise for this author
AuthorRaises(author) ==
    /\ Has(author, "AffiliationInfo")
    /\ \/ Len(author["AffiliationInfo"]) = 0
       \/ ~Has(InspectedEntry(author["AffiliationInfo"]), "Affiliation")
       \/ /\ IsNonAcademic(InspectedEntry(author["AffiliationInfo"])["Affiliation"])
          /\ ~(Has(author, "LastName") /\ Has(author, "ForeName"))

\* lines 42-51 for an author on which they do not raise
AuthorBody(info, author) ==
    IF ~Has(author, "AffiliationInfo") THEN info
    ELSE LET affiliation == InspectedEntry(author["AffiliationInfo"])["Affiliation"]
         IN  SetEmail(IF IsNonAcademic(affiliation)
                      THEN AppendFlagged(info, author, affiliation)
                      ELSE info,
                      affiliation)

\* variant: the row is returned whenever a title was extracted
ReturnValueIfTitled(info) == IF info["Title"] # "" THEN info ELSE None

\* variant: the row is returned unconditionally
ReturnValueAlways(info) == info

\* line 55
ReturnValue(info) == IF info["Non-academic Author(s)"] # <<>> THEN info ELSE None

\* lines 36-39
ExtractHeader ==
    /\ pc = "try"
    /\ IF HeaderOk(records)
       THEN /\ paper_info' = [paper_info EXCEPT
                    !["Title"] = ArticleOf(records)["ArticleTitle"],
                    !["Publication Date"] =
                        ArticleOf(records)["Journal"]["JournalIssue"]["PubDate"]["Year"]]
            /\ authors' = AuthorListOf(ArticleOf(records))
            /\ k' = 1
            /\ pc' = "authors"
            /\ UNCHANGED caught
       ELSE \* line 37 may already have stored the title when line 38 raises
            /\ paper_info' =
                 IF Len(records["PubmedArticle"]) >= 1 /\ Has(ArticleOf(records), "ArticleTitle")
                 THEN [paper_info EXCEPT !["Title"] = ArticleOf(records)["ArticleTitle"]]
                 ELSE paper_info
            /\ caught' = TRUE
            /\ pc' = "return"
            /\ UNCHANGED <<authors, k>>
    /\ UNCHANGED <<args, pmids, i, results, records, paper_data, stdout, fileWritten,
                   fileRows, error, searches, fetchLog, flaggedAt>>

\* lines 41-51: one iteration of the author loop
AuthorStep ==
    /\ pc = "authors"
    /\ k <= Len(authors)
    /\ IF AuthorRaises(authors[k])
       THEN /\ caught' = TRUE
            /\ pc' = "return"
            /\ UNCHANGED <<paper_info, k, flaggedAt>>
       ELSE /\ paper_info' = AuthorBody(paper_info, authors[k])
            /\ flaggedAt' =
                 IF Len(paper_info'["Non-academic Author(s)"]) >
                    Len(paper_info["Non-academic Author(s)"])
                 THEN Append(flaggedAt, k) ELSE flaggedAt
            /\ k' = k + 1
            /\ UNCHANGED <<pc, caught>>
    /\ UNCHANGED <<args, pmids, i, results, records, authors, paper_data, stdout,
                   fileWritten, fileRows, error, searches, fetchLog>>

\* line 41: the author list is exhausted
AuthorsDone ==
    /\ pc = "authors"
    /\ k > Len(authors)
    /\ pc' = "return"
    /\ UNCHANGED <<args, pmids, i, results, records, paper_info, authors, k, caught,
                   paper_data, stdout, fileWritten, fileRows, error, searches, fetchLog,
                   flaggedAt>>

\* line 55, received at line 23
ExtractReturn ==
    /\ pc = "return"
    /\ paper_data' = ReturnValue(paper_info)
    /\ pc' = "collect"
    /\ UNCHANGED <<args, pmids, i, results, records, paper_info, authors, k, caught,
                   stdout, fileWritten, fileRows, error, searches, fetchLog, flaggedAt>>

(* ----------------------------- fetch_papers ---------------------------- *)
Min(a, b) == IF a <= b THEN a ELSE b

PmidNames == <<"101", "102", "103", "104">>
Ids == {PmidNames[n] : n \in 1..MaxIds}

\* The IdList of an esearch with retmax=20: distinct identifiers, at most
\* RetMax of them.
IdLists ==
    {l \in UNION {[1..m -> Ids] : m \in 0..Min(MaxIds, RetMax)} :
        \A a, b \in 1..Len(l) : l[a] = l[b] => a = b}

\* the parsed esearch responses; one of them carries no IdList
SearchResponses == {[IdList |-> l] : l \in IdLists} \cup {[Count |-> "0"]}

\* line 19: record.get("IdList", [])
IdListOf(record) == IF Has(record, "IdList") THEN record["IdList"] ELSE <<>>

Author(last) == CHOOSE a \in AuthorPool : Has(a, "LastName") /\ a["LastName"] = last

\* the parsed efetch responses the fetch loop draws from
PipelineRecords ==
    { Response([ArticleTitle |-> "T", Journal |-> Journal([Year |-> "2020"]),
                AuthorList |-> <<Author("Doe")>>]),
      Response([ArticleTitle |-> "T", Journal |-> Journal([Year |-> "2020"]),
                AuthorList |-> <<Author("Roe")>>]),
      Response([ArticleTitle |-> "T", Journal |-> Journal([Year |-> "2020"]),
                AuthorList |-> <<Author("Moe"), Author("Kim")>>]),
      Response([ArticleTitle |-> "T", Journal |-> Journal([MedlineDate |-> "2020 Jan-Feb"]),
                AuthorList |-> <<Author("Doe")>>]),
      EmptyResponse }

\* `if paper_data:` (a row always has its six keys, so only None is falsy)
Truthy(v) == v # None

\* variant: the loop skips an identifier
NextIndexSkips(n) == n + 2

\* the for loop's step to the next identifier
NextIndex(n) == n + 1

\* lines 16-19, 21: the search succeeds
Search ==
    /\ pc = "search"
    /\ \E record \in SearchResponses : pmids' = IdListOf(record)
    /\ searches' = searches + 1
    /\ results' = <<>>
    /\ i' = 1
    /\ pc' = "loop"
    /\ UNCHANGED <<args, records, paper_info, authors, k, caught, paper_data, stdout,
                   fileWritten, fileRows, error, fetchLog, flaggedAt>>

\* variant: a fetch error is swallowed and the loop goes on
UpstreamErrorSwallowed(kind) ==
    /\ pc' = IF kind = "fetch" THEN "collect" ELSE "failed"
    /\ error' = kind
    /\ UNCHANGED <<args, pmids, i, results, records, paper_info, authors, k, caught,
                   paper_data, stdout, fileWritten, fileRows, flaggedAt>>

\* what an exception of esearch/efetch/read does: nothing catches it
UpstreamError(kind) ==
    /\ pc' = "failed"
    /\ error' = kind
    /\ UNCHANGED <<args, pmids, i, results, records, paper_info, authors, k, caught,
                   paper_data, stdout, fileWritten, fileRows, flaggedAt>>

\* lines 16-17: the search raises
SearchFails ==
    /\ pc = "search"
    /\ searches' = searches + 1
    /\ UNCHANGED fetchLog
    /\ UpstreamError("search")

\* lines 22-23, 29-33: the next identifier is fetched
Efetch ==
    /\ pc = "loop"
    /\ i <= Len(pmids)
    /\ \E recs \in PipelineRecords : records' = recs
    /\ fetchLog' = Append(fetchLog, pmids[i])
    /\ paper_info' = NewPaperInfo(pmids[i])
    /\ authors' = <<>>
    /\ k' = 1
    /\ caught' = FALSE
    /\ flaggedAt' = <<>>
    /\ paper_data' = None
    /\ pc' = "try"
    /\ UNCHANGED <<args, pmids, i, results, stdout, fileWritten, fileRows, error,
                   searches>>

\* lines 29-30: the fetch raises, outside the try block
EfetchFails ==
    /\ pc = "loop"
    /\ i <= Len(pmids)
    /\ fetchLog' = Append(fetchLog, pmids[i])
    /\ UNCHANGED searches
    /\ UpstreamError("fetch")

\* lines 24-25, and the loop moves on
Collect ==
    /\ pc = "collect"
    /\ results' = IF Truthy(paper_data) THEN Append(results, paper_data) ELSE results
    /\ i' = NextIndex(i)
    /\ pc' = "loop"
    /\ UNCHANGED <<args, pmids, records, paper_info, authors, k, caught, paper_data,
                   stdout, fileWritten, fileRows, error, searches, fetchLog, flaggedAt>>

\* line 26
LoopEnd ==
    /\ pc = "loop"
    /\ i > Len(pmids)
    /\ pc' = "report"
    /\ UNCHANGED <<args, pmids, i, results, records, paper_info, authors, k, caught,
                   paper_data, stdout, fileWritten, fileRows, error, searches, fetchLog,
                   flaggedAt>>

(* -------------------------- save_to_csv, main -------------------------- *)
ListColumns == {"Non-academic Author(s)", "Company Affiliation(s)"}

\* str() of a list of strings, as csv writes a list-valued cell
RECURSIVE Joined(_)
Joined(l) ==
    IF l = <<>> THEN ""
    ELSE "'" \o Head(l) \o "'" \o (IF Len(l) > 1 THEN ", " ELSE "") \o Joined(Tail(l))

CellText(row, name) ==
    IF name \in ListColumns THEN "[" \o Joined(row[name]) \o "]" ELSE row[name]

\* DictWriter: the cells of a row in fieldnames order
RowLine(row) == [j \in 1..Len(fieldnames) |-> CellText(row, fieldnames[j])]

\* variant: writeheader() is left out
save_to_csv_NoHeader(data) == [n \in 1..Len(data) |-> RowLine(data[n])]

\* lines 59-61: the content save_to_csv writes
save_to_csv(data) == <<fieldnames>> \o [n \in 1..Len(data) |-> RowLine(data[n])]

\* `if args.file:` (None and "" are falsy); the option is <<>> when absent
FileGiven(a) == a.file # <<>> /\ a.file[1] # ""

\* lines 70-71
MainStart ==
    /\ pc = "main"
    /\ stdout' = IF args.debug
                 THEN Append(stdout, [text |-> "Fetching papers for query: " \o args.query])
                 ELSE stdout
    /\ pc' = "search"
    /\ UNCHANGED <<args, pmids, i, results, records, paper_info, authors, k, caught,
                   paper_data, fileWritten, fileRows, error, searches, fetchLog,
                   flaggedAt>>

\* lines 75-77
Save ==
    /\ pc = "report"
    /\ FileGiven(args)
    /\ fileWritten' = TRUE
    /\ fileRows' = save_to_csv(results)
    /\ stdout' = Append(stdout, [text |-> "Results saved to " \o args.file[1]])
    /\ pc' = "done"
    /\ UNCHANGED <<args, pmids, i, results, records, paper_info, authors, k, caught,
                   paper_data, error, searches, fetchLog, flaggedAt>>

\* line 58: open() raises, nothing catches it
SaveFails ==
    /\ pc = "report"
    /\ FileGiven(args)
    /\ pc' = "failed"
    /\ error' = "io"
    /\ UNCHANGED <<args, pmids, i, results, records, paper_info, authors, k, caught,
                   paper_data, stdout, fileWritten, fileRows, searches, fetchLog,
                   flaggedAt>>

\* lines 78-79
PrintPapers ==
    /\ pc = "report"
    /\ ~FileGiven(args)
    /\ stdout' = Append(stdout, [papers |-> results])
    /\ pc' = "done"
    /\ UNCHANGED <<args, pmids, i, results, records, paper_info, authors, k, caught,
                   paper_data, fileWritten, fileRows, error, searches, fetchLog,
                   flaggedAt>>

(* --------------------------- specifications ---------------------------- *)
Locals ==
    /\ records = NoRecords
    /\ paper_info = NewPaperInfo("")
    /\ authors = <<>>
    /\ k = 1
    /\ caught = FALSE
    /\ paper_data = None
    /\ flaggedAt = <<>>

Outputs ==
    /\ stdout = <<>>
    /\ fileWritten = FALSE
    /\ fileRows = <<>>
    /\ error = ""

\* the process after parse_args
Init ==
    /\ pc = "main"
    /\ args \in [query : {"q"}, debug : BOOLEAN, file : {<<>>, <<"">>, <<"out.csv">>}]
    /\ pmids = <<>>
    /\ i = 1
    /\ results = <<>>
    /\ searches = 0
    /\ fetchLog = <<>>
    /\ Locals
    /\ Outputs

Next ==
    \/ MainStart
    \/ Search
    \/ SearchFails
    \/ Efetch
    \/ EfetchFails
    \/ ExtractHeader
    \/ AuthorStep
    \/ AuthorsDone
    \/ ExtractReturn
    \/ Collect
    \/ LoopEnd
    \/ Save
    \/ SaveFails
    \/ PrintPapers

Spec == Init /\ [][Next]_vars

\* extract_paper_details on every record of AllRecords: the state right
\* after the fetch of the only identifier
InitExtract ==
    /\ pc = "try"
    /\ args = [query |-> "q", debug |-> FALSE, file |-> <<>>]
    /\ pmids = <<"101">>
    /\ i = 1
    /\ results = <<>>
    /\ searches = 1
    /\ fetchLog = <<"101">>
    /\ records \in AllRecords
    /\ paper_info = NewPaperInfo("101")
    /\ authors = <<>>
    /\ k = 1
    /\ caught = FALSE
    /\ paper_data = None
    /\ flaggedAt = <<>>
    /\ Outputs

NextExtract ==
    \/ ExtractHeader
    \/ AuthorStep
    \/ AuthorsDone
    \/ ExtractReturn
    \/ Collect

SpecExtract == InitExtract /\ [][NextExtract]_vars

(* ------------------------------ claims --------------------------------- *)
Range(f) == {f[n] : n \in DOMAIN f}

FlaggedNames(row) == row["Non-academic Author(s)"]
FlaggedAffiliations(row) == row["Company Affiliation(s)"]

\* the author has a first affiliation entry that carries a string
HasFirstAffiliation(author) ==
    /\ Has(author, "AffiliationInfo")
    /\ Len(author["AffiliationInfo"]) >= 1
    /\ Has(author["AffiliationInfo"][1], "Affiliation")

FirstAffiliation(author) == author["AffiliationInfo"][1]["Affiliation"]

Commercial(text) == \E n \in 1..Len(NON_ACADEMIC_KEYWORDS) : Contains(NON_ACADEMIC_KEYWORDS[n], text)
Academic(text) == \E n \in 1..Len(ACADEMIC_KEYWORDS) : Contains(ACADEMIC_KEYWORDS[n], text)

\* the author list of a raw record, empty when the record has none
RawAuthors(recs) ==
    IF Has(recs, "PubmedArticle") /\ Len(recs["PubmedArticle"]) >= 1
    THEN AuthorListOf(ArticleOf(recs))
    ELSE <<>>

\* the email of the last of the first n authors whose first affiliation
\* holds an email-shaped substring, "" when there is none
RECURSIVE LastEmail(_, _)
LastEmail(al, n) ==
    IF n = 0 THEN ""
    ELSE IF HasFirstAffiliation(al[n]) /\ re_search(FirstAffiliation(al[n])) # <<>>
         THEN re_search(FirstAffiliation(al[n]))[1]
         ELSE LastEmail(al, n - 1)

\* C1: whenever the except clause was entered during the extraction of a
\* record, extract_paper_details returns None for that record.
C1_FailureYieldsNone ==
    (pc = "collect" /\ caught) => paper_data = None

\* C2: no row without flagged authors is ever in the results list, in the
\* value extract_paper_details returns, or in the written file.
C2_RetainedRowsFlagged ==
    /\ \A n \in 1..Len(results) : results[n] # None /\ FlaggedNames(results[n]) # <<>>
    /\ (pc = "collect" /\ paper_data # None) => FlaggedNames(paper_data) # <<>>
    /\ \A n \in 2..Len(fileRows) : fileRows[n][4] # "[]"

C2_Witness ==
    /\ pc = "done"
    /\ Len(pmids) = 2
    /\ Len(results) = 1
    /\ fileWritten

\* C3: an author whose inspected affiliation contains a commercial and an
\* academic keyword is not flagged, and that affiliation is not in the
\* row's affiliation list, whatever the other authors are.
C3_AcademicWins ==
    \A n \in 1..Len(authors) :
        (/\ HasFirstAffiliation(authors[n])
         /\ Commercial(FirstAffiliation(authors[n]))
         /\ Academic(FirstAffiliation(authors[n])))
        => /\ n \notin Range(flaggedAt)
           /\ FirstAffiliation(authors[n]) \notin Range(FlaggedAffiliations(paper_info))
           /\ paper_data # None =>
                FirstAffiliation(authors[n]) \notin Range(FlaggedAffiliations(paper_data))

C3_Witness ==
    /\ pc = "collect"
    /\ paper_data # None
    /\ \E n \in 1..Len(authors) :
        /\ HasFirstAffiliation(authors[n])
        /\ Commercial(FirstAffiliation(authors[n]))
        /\ Academic(FirstAffiliation(authors[n]))

\* C4: the email of a returned row is the first email-shaped substring of
\* the last author of the record whose affiliation holds one.
C4_LastEmailWins ==
    (pc = "collect" /\ paper_data # None)
    => paper_data["Corresponding Author Email"] = LastEmail(authors, Len(authors))

\* C5: an error of the search or of a fetch ends the run at once; no file
\* is written and the collection is not printed.
C5_UpstreamErrorTerminates ==
    error \in {"search", "fetch"}
    => /\ pc = "failed"
       /\ ~ENABLED Next
       /\ ~fileWritten
       /\ fileRows = <<>>
       /\ \A n \in 1..Len(stdout) : ~Has(stdout[n], "papers")

C5_Witness ==
    /\ pc = "failed"
    /\ error = "fetch"
    /\ Len(results) >= 1

\* C6: a completed run with -f <path> leaves a file of one header row, the
\* six columns in order, and one row per retained row, and prints no
\* collection; a completed run without -f writes no file and prints the
\* collection.
C6_CsvLayout ==
    pc = "done"
    => /\ (args.file # <<>> /\ args.file[1] # "")
          => /\ fileWritten
             /\ Len(fileRows) = 1 + Len(results)
             /\ fileRows[1] = <<"PubmedID", "Title", "Publication Date",
                                "Non-academic Author(s)", "Company Affiliation(s)",
                                "Corresponding Author Email">>
             /\ \A n \in 1..Len(results) :
                    /\ fileRows[n + 1] # fileRows[1]
                    /\ fileRows[n + 1][1] = results[n]["PubmedID"]
                    /\ fileRows[n + 1][2] = results[n]["Title"]
                    /\ fileRows[n + 1][3] = results[n]["Publication Date"]
                    /\ fileRows[n + 1][6] = results[n]["Corresponding Author Email"]
             /\ \A n \in 1..Len(stdout) : ~Has(stdout[n], "papers")
       /\ args.file = <<>>
          => /\ ~fileWritten
             /\ fileRows = <<>>
             /\ stdout # <<>>
             /\ stdout[Len(stdout)] = [papers |-> results]

C6_Witness ==
    /\ pc = "done"
    /\ args.file = <<"out.csv">>
    /\ Len(pmids) = 2
    /\ Len(fileRows) = 1

\* C7: a record in which no author has an AffiliationInfo entry yields None
\* and adds no row to the results.
C7_NoAffiliationsNoRow ==
    (\A n \in 1..Len(RawAuthors(records)) : ~Has(RawAuthors(records)[n], "AffiliationInfo"))
    => /\ FlaggedNames(paper_info) = <<>>
       /\ paper_data = None
       /\ \A n \in 1..Len(results) : results[n]["PubmedID"] # paper_info["PubmedID"]

C7_Witness ==
    /\ pc = "loop"
    /\ i = 2
    /\ Len(RawAuthors(records)) >= 2
    /\ \A n \in 1..Len(RawAuthors(records)) : ~Has(RawAuthors(records)[n], "AffiliationInfo")

\* C8: flagging, the appended affiliation and the email are decided by the
\* first affiliation entry of each author alone.
C8_FirstEntryOnly ==
    /\ \A n \in 1..Len(authors) :
          n \in Range(flaggedAt)
          <=> /\ n < k
              /\ HasFirstAffiliation(authors[n])
              /\ Commercial(FirstAffiliation(authors[n]))
              /\ ~Academic(FirstAffiliation(authors[n]))
    /\ Len(FlaggedAffiliations(paper_info)) = Len(flaggedAt)
    /\ \A j \in 1..Len(flaggedAt) :
          FlaggedAffiliations(paper_info)[j] = FirstAffiliation(authors[flaggedAt[j]])
    /\ pc = "authors"
          => paper_info["Corresponding Author Email"] = LastEmail(authors, k - 1)

C8_Witness ==
    /\ pc = "collect"
    /\ paper_data # None
    /\ \E n \in 1..Len(authors) :
        /\ n < k
        /\ HasFirstAffiliation(authors[n])
        /\ Len(authors[n]["AffiliationInfo"]) = 2
        /\ ~Commercial(FirstAffiliation(authors[n]))
        /\ Commercial(authors[n]["AffiliationInfo"][2]["Affiliation"])

\* position of an identifier in the search result
PositionOf(id) == CHOOSE n \in 1..Len(pmids) : pmids[n] = id

\* C9: one search; the identifiers are fetched once each, in search order,
\* one at a time; the results are an order-preserving subsequence of the
\* identifiers without repetition.
C9_Sequential ==
    /\ searches = (IF pc \in {"main", "search"} THEN 0 ELSE 1)
    /\ Len(fetchLog) <= Len(pmids)
    /\ fetchLog = SubSeq(pmids, 1, Len(fetchLog))
    /\ pc \in {"try", "authors", "return", "collect"} => Len(fetchLog) = i
    /\ pc = "loop" => Len(fetchLog) = i - 1
    /\ pc \in {"report", "done"} => fetchLog = pmids
    /\ Len(results) <= Len(fetchLog)
    /\ \A n \in 1..Len(results) : results[n]["PubmedID"] \in Range(fetchLog)
    /\ \A a, b \in 1..Len(results) :
          a < b => PositionOf(results[a]["PubmedID"]) < PositionOf(results[b]["PubmedID"])

C9_Witness ==
    /\ pc = "done"
    /\ Len(pmids) = 2
    /\ Len(results) = 1
    /\ results[1]["PubmedID"] = pmids[2]

\* C10: the two flagged lists stay aligned: same length, and entry j of the
\* affiliation list is the inspected affiliation of the author named at
\* entry j, also when a failure interrupts the author loop.
C10_ListsAligned ==
    /\ Len(FlaggedNames(paper_info)) = Len(flaggedAt)
    /\ Len(FlaggedAffiliations(paper_info)) = Len(FlaggedNames(paper_info))
    /\ \A j \in 1..Len(flaggedAt) :
          /\ FlaggedNames(paper_info)[j] =
                authors[flaggedAt[j]]["LastName"] \o " " \o authors[flaggedAt[j]]["ForeName"]
          /\ FlaggedAffiliations(paper_info)[j] = FirstAffiliation(authors[flaggedAt[j]])
    /\ paper_data # None => paper_data = paper_info
    /\ \A n \in 1..Len(results) :
          Len(FlaggedAffiliations(results[n])) = Len(FlaggedNames(results[n]))

C10_Witness ==
    /\ pc = "collect"
    /\ caught
    /\ paper_data # None
    /\ k <= Len(authors)
    /\ ~Has(authors[k], "LastName")

====
